---- MODULE Spec2Model ----
(***************************************************************************)
(* Migration scripts of luxfi/cli:                                         *)
(*   fix_genesis_coinbase.py   - coinbase normalizer and genesis rewriter  *)
(*   export-blockchain-rpc.py  - chain walker / exporter over JSON-RPC     *)
(*   read-migrated-state.py    - analyzer of a line-delimited export       *)
(* JSON text is a TLA+ string; json.loads / json.dumps are modelled        *)
(* character by character, so that parsing followed by serialization is    *)
(* not the identity on texts.  Intermediate results are handed on as       *)
(* parameters, one step per definition.                                    *)
(***************************************************************************)
EXTENDS Integers, Sequences, FiniteSets, TLC

(***************************************************************************)
(* JSON values, as Python's json module builds them.  A dict keeps its     *)
(* insertion order, so an object is a sequence of key/value pairs.         *)
(***************************************************************************)
JStr(s) == [t |-> "str", s |-> s]
JNum(s) == [t |-> "num", s |-> s]
JLit(s) == [t |-> "lit", s |-> s]
JObj(kv) == [t |-> "obj", kv |-> kv]
JArr(items) == [t |-> "arr", items |-> items]
KV(k, v) == [k |-> k, v |-> v]

Ch(s, i) == IF i >= 1 /\ i <= Len(s) THEN SubSeq(s, i, i) ELSE ""

MinOf(S) == CHOOSE x \in S : \A y \in S : x <= y

Whitespace == {" ", "\n", "\t", "\r"}
Digits == {"0", "1", "2", "3", "4", "5", "6", "7", "8", "9"}

\* index of the first character at or after i that is in set C (Len(s)+1 if none)
FirstIn(s, i, C) ==
  CHOOSE j \in i..(Len(s) + 1) :
    /\ j = Len(s) + 1 \/ Ch(s, j) \in C
    /\ \A k \in i..(j - 1) : Ch(s, k) \notin C

\* index of the first character at or after i that is not in set C (Len(s)+1 if none)
FirstNotIn(s, i, C) ==
  CHOOSE j \in i..(Len(s) + 1) :
    /\ j = Len(s) + 1 \/ Ch(s, j) \notin C
    /\ \A k \in i..(j - 1) : Ch(s, k) \in C

SkipWs(s, i) == FirstNotIn(s, i, Whitespace)

ParseFail == [ok |-> FALSE, v |-> JLit("null"), i |-> 0]

\* dict[key] = value: an existing key keeps its place and takes the new value
SetKey(kv, k, v) ==
  IF \E j \in 1..Len(kv) : kv[j].k = k
  THEN [j \in 1..Len(kv) |-> IF kv[j].k = k THEN KV(k, v) ELSE kv[j]]
  ELSE Append(kv, KV(k, v))

\* number of backslashes that end at index k (0 if s[k] is none), counted
\* back no further than index i
BackslashRun(s, i, k) ==
  CHOOSE d \in 0..(k - i + 1) :
    /\ d = k - i + 1 \/ Ch(s, k - d) # "\\"
    /\ \A n \in 0..(d - 1) : Ch(s, k - n) = "\\"

\* s[k] is a backslash that starts an escape pair of the literal that began at i
IsEscaper(s, i, k) == Ch(s, k) = "\\" /\ BackslashRun(s, i, k - 1) % 2 = 0

\* s[k] is the second character of an escape pair
IsEscaped(s, i, k) == k > i /\ IsEscaper(s, i, k - 1)

\* what s[k] adds to the decoded string
Decoded(s, i, k) ==
  IF IsEscaper(s, i, k) THEN ""
  ELSE IF IsEscaped(s, i, k) /\ Ch(s, k) = "n" THEN "\n"
  ELSE Ch(s, k)

\* s[k] is allowed where it stands inside a string literal
LegalInString(s, i, k) ==
  IF IsEscaped(s, i, k) THEN Ch(s, k) \in {"\"", "\\", "/", "n"}
  ELSE Ch(s, k) \notin {"\n", "\t", "\r"}

\* the decoded characters lo..hi of the literal that began at i
RECURSIVE DecodeRange(_, _, _, _)
DecodeRange(s, i, lo, hi) ==
  IF lo > hi THEN ""
  ELSE IF \A k \in lo..hi : Ch(s, k) # "\\" /\ ~IsEscaped(s, i, k) THEN SubSeq(s, lo, hi)
  ELSE IF lo = hi THEN Decoded(s, i, lo)
  ELSE DecodeRange(s, i, lo, (lo + hi) \div 2) \o DecodeRange(s, i, (lo + hi) \div 2 + 1, hi)

\* the literal that began at i and whose closing quote is at j (Len(s)+1: none)
StringUpTo(s, i, j) ==
  IF j > Len(s) \/ \E k \in i..(j - 1) : ~LegalInString(s, i, k)
  THEN [ok |-> FALSE, str |-> "", i |-> 0]
  ELSE [ok |-> TRUE, str |-> DecodeRange(s, i, i, j - 1), i |-> j + 1]

\* s[k] is a quote that no backslash escapes
ClosingQuote(s, i, k) == Ch(s, k) = "\"" /\ ~IsEscaped(s, i, k)

\* The body of a string literal from index i (after the opening quote).
ScanString(s, i) ==
  StringUpTo(s, i, CHOOSE j \in i..(Len(s) + 1) :
                     /\ j = Len(s) + 1 \/ ClosingQuote(s, i, j)
                     /\ \A k \in i..(j - 1) : ~ClosingQuote(s, i, k))

RECURSIVE ParseValue(_, _)
RECURSIVE ParseMembers(_, _, _)
RECURSIVE ParseElements(_, _, _)

\* after a member's value: "}" ends the object, "," starts the next member
MembersClose(s, kv, e) ==
  IF Ch(s, e) = "}" THEN [ok |-> TRUE, v |-> JObj(kv), i |-> e + 1]
  ELSE IF Ch(s, e) = "," THEN ParseMembers(s, SkipWs(s, e + 1), kv)
  ELSE ParseFail

MembersAfterValue(s, kv, key, r) ==
  IF ~r.ok THEN ParseFail ELSE MembersClose(s, SetKey(kv, key, r.v), SkipWs(s, r.i))

MembersAfterColon(s, kv, key, c) ==
  IF Ch(s, c) # ":" THEN ParseFail
  ELSE MembersAfterValue(s, kv, key, ParseValue(s, SkipWs(s, c + 1)))

MembersAfterKey(s, kv, k) ==
  IF ~k.ok THEN ParseFail ELSE MembersAfterColon(s, kv, k.str, SkipWs(s, k.i))

\* after "{" or ",": a key, ":", a value, then "," or "}"
ParseMembers(s, i, kv) ==
  IF Ch(s, i) # "\"" THEN ParseFail
  ELSE MembersAfterKey(s, kv, ScanString(s, i + 1))

ElementsClose(s, items, e) ==
  IF Ch(s, e) = "]" THEN [ok |-> TRUE, v |-> JArr(items), i |-> e + 1]
  ELSE IF Ch(s, e) = "," THEN ParseElements(s, SkipWs(s, e + 1), items)
  ELSE ParseFail

ElementsAfterValue(s, items, r) ==
  IF ~r.ok THEN ParseFail ELSE ElementsClose(s, Append(items, r.v), SkipWs(s, r.i))

ParseElements(s, i, items) == ElementsAfterValue(s, items, ParseValue(s, i))

\* digits; a leading zero is a number of its own
NumberUpTo(s, i, j) ==
  IF Ch(s, i) = "0" /\ j > i + 1 THEN [ok |-> TRUE, v |-> JNum("0"), i |-> i + 1]
  ELSE [ok |-> TRUE, v |-> JNum(SubSeq(s, i, j - 1)), i |-> j]

ParseNumber(s, i) == NumberUpTo(s, i, FirstNotIn(s, i, Digits))

StringValue(r) == IF r.ok THEN [ok |-> TRUE, v |-> JStr(r.str), i |-> r.i] ELSE ParseFail

ObjectFrom(s, j) ==
  IF Ch(s, j) = "}" THEN [ok |-> TRUE, v |-> JObj(<<>>), i |-> j + 1]
  ELSE ParseMembers(s, j, <<>>)

ArrayFrom(s, j) ==
  IF Ch(s, j) = "]" THEN [ok |-> TRUE, v |-> JArr(<<>>), i |-> j + 1]
  ELSE ParseElements(s, j, <<>>)

ParseValue(s, i) ==
  IF Ch(s, i) = "\"" THEN StringValue(ScanString(s, i + 1))
  ELSE IF Ch(s, i) = "{" THEN ObjectFrom(s, SkipWs(s, i + 1))
  ELSE IF Ch(s, i) = "[" THEN ArrayFrom(s, SkipWs(s, i + 1))
  ELSE IF Ch(s, i) \in Digits THEN ParseNumber(s, i)
  ELSE IF i + 3 <= Len(s) /\ SubSeq(s, i, i + 3) \in {"true", "null"}
    THEN [ok |-> TRUE, v |-> JLit(SubSeq(s, i, i + 3)), i |-> i + 4]
  ELSE IF i + 4 <= Len(s) /\ SubSeq(s, i, i + 4) = "false"
    THEN [ok |-> TRUE, v |-> JLit("false"), i |-> i + 5]
  ELSE ParseFail

WholeText(s, r) ==
  IF r.ok /\ SkipWs(s, r.i) = Len(s) + 1
  THEN [ok |-> TRUE, v |-> r.v]
  ELSE [ok |-> FALSE, v |-> JLit("null")]

\* json.loads / json.load: one value, surrounded by whitespace only
JsonLoads(s) == WholeText(s, ParseValue(s, SkipWs(s, 1)))

\* the body of a string literal as json.dumps writes it
Escaped(c) == IF c \in {"\"", "\\"} THEN "\\" \o c ELSE IF c = "\n" THEN "\\n" ELSE c

RECURSIVE EscapeRange(_, _, _)
EscapeRange(s, lo, hi) ==
  IF lo > hi THEN ""
  ELSE IF \A k \in lo..hi : Ch(s, k) \notin {"\"", "\\", "\n"} THEN SubSeq(s, lo, hi)
  ELSE IF lo = hi THEN Escaped(Ch(s, lo))
  ELSE EscapeRange(s, lo, (lo + hi) \div 2) \o EscapeRange(s, (lo + hi) \div 2 + 1, hi)

Quote(s) == "\"" \o EscapeRange(s, 1, Len(s)) \o "\""

\* json.dumps(v, separators=(isep, ksep)), no indent
RECURSIVE Dumps(_, _, _)
RECURSIVE DumpsMembers(_, _, _, _)
RECURSIVE DumpsItems(_, _, _, _)
DumpsMembers(kv, i, isep, ksep) ==
  IF i > Len(kv) THEN ""
  ELSE (IF i > 1 THEN isep ELSE "") \o Quote(kv[i].k) \o ksep
       \o Dumps(kv[i].v, isep, ksep) \o DumpsMembers(kv, i + 1, isep, ksep)

DumpsItems(items, i, isep, ksep) ==
  IF i > Len(items) THEN ""
  ELSE (IF i > 1 THEN isep ELSE "") \o Dumps(items[i], isep, ksep)
       \o DumpsItems(items, i + 1, isep, ksep)

Dumps(v, isep, ksep) ==
  IF v.t = "str" THEN Quote(v.s)
  ELSE IF v.t = "obj" THEN "{" \o DumpsMembers(v.kv, 1, isep, ksep) \o "}"
  ELSE IF v.t = "arr" THEN "[" \o DumpsItems(v.items, 1, isep, ksep) \o "]"
  ELSE v.s

\* json.dumps(v, separators=(',', ':'))
DumpsCompact(v) == Dumps(v, ",", ":")

RECURSIVE Spaces(_)
Spaces(n) == IF n <= 0 THEN "" ELSE " " \o Spaces(n - 1)

\* json.dump(v, f, indent=2)
RECURSIVE DumpsIndent(_, _)
RECURSIVE IndentMembers(_, _, _)
RECURSIVE IndentItems(_, _, _)
IndentMembers(kv, i, level) ==
  IF i > Len(kv) THEN ""
  ELSE (IF i > 1 THEN "," ELSE "") \o "\n" \o Spaces(2 * level) \o Quote(kv[i].k)
       \o ": " \o DumpsIndent(kv[i].v, level) \o IndentMembers(kv, i + 1, level)

IndentItems(items, i, level) ==
  IF i > Len(items) THEN ""
  ELSE (IF i > 1 THEN "," ELSE "") \o "\n" \o Spaces(2 * level)
       \o DumpsIndent(items[i], level) \o IndentItems(items, i + 1, level)

DumpsIndent(v, level) ==
  IF v.t = "str" THEN Quote(v.s)
  ELSE IF v.t = "obj" THEN
    IF v.kv = <<>> THEN "{}"
    ELSE "{" \o IndentMembers(v.kv, 1, level + 1) \o "\n" \o Spaces(2 * level) \o "}"
  ELSE IF v.t = "arr" THEN
    IF v.items = <<>> THEN "[]"
    ELSE "[" \o IndentItems(v.items, 1, level + 1) \o "\n" \o Spaces(2 * level) \o "]"
  ELSE v.s

(***************************************************************************)
(* fix_genesis_coinbase.py                                                 *)
(***************************************************************************)
AddrHexLen == 40
CorruptHexLen == 64

HasKey(kv, k) == \E j \in 1..Len(kv) : kv[j].k = k
GetKey(kv, k) == kv[MinOf({j \in 1..Len(kv) : kv[j].k = k})].v

StartsWith0x(s) == Len(s) >= 2 /\ SubSeq(s, 1, 2) = "0x"

EvFixed(before, after) == [kind |-> "fixed", before |-> before, after |-> after]
EvWarning(value, n) == [kind |-> "warning", before |-> value, after |-> value, len |-> n]

\* the last 40 characters kept instead of the first 40
TruncateHexTail(hex_part) ==
  "0x" \o SubSeq(hex_part, Len(hex_part) - AddrHexLen + 1, Len(hex_part))

\* line 21: '0x' + hex_part[:40]
TruncateHex(hex_part) == "0x" \o SubSeq(hex_part, 1, AddrHexLen)

\* lines 15-24: the 'coinbase' entry of one dict.  A value that is not a
\* string has no startswith: AttributeError.
FixCoinbaseField(kv) ==
  IF ~HasKey(kv, "coinbase") THEN [kv |-> kv, ev |-> <<>>, err |-> FALSE]
  ELSE LET coinbase == GetKey(kv, "coinbase") IN
    IF coinbase.t # "str" THEN [kv |-> kv, ev |-> <<>>, err |-> TRUE]
    ELSE IF ~StartsWith0x(coinbase.s) THEN [kv |-> kv, ev |-> <<>>, err |-> FALSE]
    ELSE LET hex_part == SubSeq(coinbase.s, 3, Len(coinbase.s)) IN
      IF Len(hex_part) = CorruptHexLen THEN
        LET fixed == TruncateHex(hex_part)
        IN [kv |-> SetKey(kv, "coinbase", JStr(fixed)),
            ev |-> <<EvFixed(coinbase.s, fixed)>>, err |-> FALSE]
      ELSE IF Len(hex_part) # AddrHexLen THEN
        [kv |-> kv, ev |-> <<EvWarning(coinbase.s, Len(hex_part))>>, err |-> FALSE]
      ELSE [kv |-> kv, ev |-> <<>>, err |-> FALSE]

\* the serialized sub-document serialized once more, as a JSON string
ReserializeEmbeddedTwice(v) == DumpsCompact(JStr(DumpsCompact(v)))

\* line 35: json.dumps(embedded, separators=(',', ':'))
ReserializeEmbedded(v) == DumpsCompact(v)

RECURSIVE fix_coinbase_in_json(_)
RECURSIVE FixValues(_, _, _)
RECURSIVE FixItems(_, _, _)

\* lines 28-29: a dict or list value, after the recursive call r
FixedChild(kv, i, ev, r) ==
  IF r.err THEN [kv |-> [kv EXCEPT ![i] = KV(kv[i].k, r.v)], ev |-> ev \o r.ev, err |-> TRUE]
  ELSE FixValues([kv EXCEPT ![i] = KV(kv[i].k, r.v)], i + 1, ev \o r.ev)

\* lines 34-35: the embedded document, after the recursive call r
FixedEmbedded(kv, i, ev, r) ==
  IF r.err THEN [kv |-> kv, ev |-> ev \o r.ev, err |-> TRUE]
  ELSE FixValues([kv EXCEPT ![i] = KV(kv[i].k, JStr(ReserializeEmbedded(r.v)))],
                 i + 1, ev \o r.ev)

\* lines 32-37: the embedded string, after json.loads gave p
ParsedEmbedded(kv, i, ev, p) ==
  IF ~p.ok THEN FixValues(kv, i + 1, ev)
  ELSE FixedEmbedded(kv, i, ev, fix_coinbase_in_json(p.v))

\* lines 27-37: the loop over the dict's items, from entry i on
FixValues(kv, i, ev) ==
  IF i > Len(kv) THEN [kv |-> kv, ev |-> ev, err |-> FALSE]
  ELSE IF kv[i].v.t \in {"obj", "arr"}
    THEN FixedChild(kv, i, ev, fix_coinbase_in_json(kv[i].v))
  ELSE IF kv[i].v.t = "str" /\ kv[i].k = "cChainGenesis"
    THEN ParsedEmbedded(kv, i, ev, JsonLoads(kv[i].v.s))
  ELSE FixValues(kv, i + 1, ev)

FixedItem(items, i, ev, r) ==
  IF r.err THEN [items |-> [items EXCEPT ![i] = r.v], ev |-> ev \o r.ev, err |-> TRUE]
  ELSE FixItems([items EXCEPT ![i] = r.v], i + 1, ev \o r.ev)

\* lines 38-40: the loop over a list
FixItems(items, i, ev) ==
  IF i > Len(items) THEN [items |-> items, ev |-> ev, err |-> FALSE]
  ELSE FixedItem(items, i, ev, fix_coinbase_in_json(items[i]))

DictResult(r) == [v |-> JObj(r.kv), ev |-> r.ev, err |-> r.err]
ListResult(r) == [v |-> JArr(r.items), ev |-> r.ev, err |-> r.err]

\* lines 14-29, after the coinbase entry was handled (c)
DictAfterCoinbase(data, c) ==
  IF c.err THEN [v |-> data, ev |-> c.ev, err |-> TRUE]
  ELSE DictResult(FixValues(c.kv, 1, c.ev))

\* The document after the call (as far as it was changed when an exception
\* ended the call), what was printed, and whether the call raised.
fix_coinbase_in_json(data) ==
  IF data.t = "obj" THEN DictAfterCoinbase(data, FixCoinbaseField(data.kv))
  ELSE IF data.t = "arr" THEN ListResult(FixItems(data.items, 1, <<>>))
  ELSE [v |-> data, ev |-> <<>>, err |-> FALSE]

(***************************************************************************)
(* Genesis documents the normalizer is run on.                             *)
(***************************************************************************)
Hex40 == "9011e888251ab053b7bd1cdb598db4f9ded94714"
Pad24 == "000000000000000000000000"
Cb64 == "0x" \o Hex40 \o Pad24
Cb64Padded == "0x" \o Pad24 \o Hex40
Cb40 == "0x" \o Hex40
CbShort == "0x9011e888"
CbNoPrefix == Hex40 \o Pad24

CoinbaseInputs ==
  {JStr(Cb64), JStr(Cb64Padded), JStr(Cb40), JStr(CbShort), JStr(CbNoPrefix), JLit("null")}

Balance(b) == JObj(<<KV("balance", JStr(b))>>)

InnerGenesis(cb) ==
  JObj(<<KV("config", JObj(<<KV("chainId", JNum("96369"))>>)),
         KV("coinbase", cb),
         KV("alloc", JObj(<<KV(Cb40, Balance("1000"))>>))>>)

Validators ==
  JArr(<<JObj(<<KV("coinbase", JStr(Cb64Padded))>>),
         JArr(<<JObj(<<KV("coinbase", JStr(CbShort))>>), JStr("x")>>)>>)

EmbeddedInputs ==
  { DumpsCompact(InnerGenesis(JStr(Cb64))),
    Dumps(JObj(<<KV("coinbase", JStr(Cb64Padded)), KV("validators", Validators)>>), ", ", ": "),
    "{\"coinbase\": \"0x",
    DumpsCompact(InnerGenesis(JLit("null"))),
    DumpsCompact(InnerGenesis(JStr(Cb40))),
    DumpsIndent(JObj(<<KV("cChainGenesis",
                          JStr(Dumps(InnerGenesis(JStr(Cb64)), ", ", ": ")))>>), 0) }

Opt(S) == {<<>>} \cup {<<e>> : e \in S}

AllocInputs ==
  { JObj(<<KV(Cb40, Balance("1000"))>>),
    JObj(<<KV(Cb40, Balance("1000")), KV(Cb64Padded, Balance("5"))>>) }

GenesisDocWith(cb, emb, vals, alloc) ==
  JObj(<<KV("config", JObj(<<KV("chainId", JNum("96369"))>>)),
         KV("gasLimit", JNum("12000000"))>>
       \o [j \in 1..Len(cb) |-> KV("coinbase", cb[j])]
       \o <<KV("alloc", alloc)>>
       \o [j \in 1..Len(vals) |-> KV("validators", vals[j])]
       \o [j \in 1..Len(emb) |-> KV("cChainGenesis", JStr(emb[j]))])

Docs ==
  { GenesisDocWith(cb, emb, vals, alloc) :
      cb \in Opt(CoinbaseInputs), emb \in Opt(EmbeddedInputs),
      vals \in Opt({Validators}), alloc \in AllocInputs }

GenesisDoc(cb, emb, vals) ==
  GenesisDocWith(cb, emb, vals, JObj(<<KV(Cb40, Balance("1000")), KV(Cb64Padded, Balance("5"))>>))

\* Texts of the genesis files main finds on disk: a file to fix (indented,
\* with an embedded genesis written with spaces), a file that needs no fix,
\* a file cut short, a file whose second coinbase is null, and a file
\* written by hand with a repeated key.
FileTexts ==
  { DumpsIndent(JObj(<<KV("coinbase", JStr(Cb64)),
                       KV("alloc", JObj(<<KV(Cb64Padded, Balance("5"))>>)),
                       KV("cChainGenesis",
                          JStr(Dumps(JObj(<<KV("coinbase", JStr(Cb64Padded))>>), ", ", ": ")))>>), 0),
    Dumps(JObj(<<KV("coinbase", JStr(Cb40)), KV("gasLimit", JNum("12000000"))>>), ", ", ": "),
    "{\"coinbase\": \"0x" \o Hex40,
    DumpsCompact(JObj(<<KV("a", JArr(<<JObj(<<KV("coinbase", JStr(Cb64))>>)>>)),
                        KV("b", JObj(<<KV("coinbase", JLit("null"))>>))>>)),
    "{ \"coinbase\" : \"0x1\",\n\"coinbase\":\"" \o Cb64 \o "\" }\n" }

NoFile == [exists |-> FALSE, text |-> ""]
File(text) == [exists |-> TRUE, text |-> text]

(***************************************************************************)
(* export-blockchain-rpc.py                                                *)
(***************************************************************************)
SampleLimit == 10

HexDigits == "0123456789abcdef"

Min(a, b) == IF a <= b THEN a ELSE b

\* hex(n) without its prefix
RECURSIVE HexOf(_)
HexOf(n) ==
  IF n < 16 THEN Ch(HexDigits, n + 1)
  ELSE HexOf(n \div 16) \o Ch(HexDigits, (n % 16) + 1)

\* hex(n)
PyHex(n) == "0x" \o HexOf(n)

DigitValue(c) == (CHOOSE d \in 1..16 : Ch(HexDigits, d) = c) - 1

\* the value of the first k hex digits of s
RECURSIVE HexValue(_, _)
HexValue(s, k) ==
  IF k = 0 THEN 0 ELSE HexValue(s, k - 1) * 16 + DigitValue(Ch(s, k))

\* int(s, 16), which takes the digits with or without the 0x prefix
PyInt16(s) ==
  IF StartsWith0x(s) THEN HexValue(SubSeq(s, 3, Len(s)), Len(s) - 2)
  ELSE HexValue(s, Len(s))

\* What the node holds under a block number.
NodeBlock(n) ==
  [number |-> PyHex(n),
   hash |-> "0xb10c" \o HexOf(n),
   parentHash |-> IF n = 0 THEN "0x0" ELSE "0xb10c" \o HexOf(n - 1),
   timestamp |-> PyHex(1700000000 + 2 * n),
   gasUsed |-> PyHex(21000 * n),
   gasLimit |-> "0x7a1200",
   difficulty |-> "0x1",
   miner |-> Cb40,
   transactions |-> <<>>,
   uncles |-> <<>>]

\* The ways a request can end: a result, a null result, a JSON-RPC error, a
\* refused connection, a timeout, a body that is no JSON.
Absent == {"null", "error", "connfail", "timeout", "badjson"}
Reply(kind, result) == [kind |-> kind, result |-> result]

Diag(m, n) == [msg |-> m, n |-> n]

\* lines 15-38: the value make_rpc_call returns for a reply (some: not None)
\* and what it prints
make_rpc_call(reply) ==
  IF reply.kind = "error"
    THEN [some |-> FALSE, val |-> reply.result, diag |-> <<Diag("RPC Error", 0)>>]
  ELSE IF reply.kind \in {"connfail", "timeout"}
    THEN [some |-> FALSE, val |-> reply.result, diag |-> <<Diag("Connection error", 0)>>]
  ELSE IF reply.kind = "badjson"
    THEN [some |-> FALSE, val |-> reply.result, diag |-> <<Diag("JSON decode error", 0)>>]
  ELSE IF reply.kind = "null"
    THEN [some |-> FALSE, val |-> reply.result, diag |-> <<>>]
  ELSE [some |-> TRUE, val |-> reply.result, diag |-> <<>>]

\* lines 46-51, after make_rpc_call returned r
get_current_height(r) ==
  IF r.some /\ r.val # "" THEN PyInt16(r.val) ELSE 0

\* the walk that stops one block early
WalkEndShort(height) == Min(height, SampleLimit)

\* line 84: range(0, min(current_height + 1, 10))
WalkEnd(height) == Min(height + 1, SampleLimit)

\* the early return left out
NeverEmpty(height) == FALSE

\* line 64: if current_height == 0
NothingToExport(height) == height = 0

\* the walk given up at the first block that cannot be fetched
BreakAtGap(n, height) == WalkEnd(height)

\* lines 106-107 and the loop's next turn: the block number after a failure
AfterGap(n, height) == n + 1

\* lines 72-77
Metadata(height) ==
  [type |-> "blockchain-export", version |-> "1.0.0", source |-> "rpc", height |-> height]

\* lines 91-103
BlockEntry(block) ==
  [type |-> "block",
   number |-> PyInt16(block.number),
   hash |-> block.hash,
   parentHash |-> block.parentHash,
   timestamp |-> PyInt16(block.timestamp),
   gasUsed |-> PyInt16(block.gasUsed),
   gasLimit |-> PyInt16(block.gasLimit),
   difficulty |-> PyInt16(block.difficulty),
   miner |-> block.miner,
   transactions |-> block.transactions,
   uncles |-> block.uncles]

NoExport == [exists |-> FALSE, lines |-> <<>>]
Export(lines) == [exists |-> TRUE, lines |-> lines]

(***************************************************************************)
(* The lines of the export file, as json.dumps(...) + '\n' writes them and *)
(* as other tools of the migration wrote them.                             *)
(***************************************************************************)
\* str(n) of a natural number
RECURSIVE PyStr(_)
PyStr(n) ==
  IF n < 10 THEN Ch(HexDigits, n + 1)
  ELSE PyStr(n \div 10) \o Ch(HexDigits, (n % 10) + 1)

\* the value of the first k decimal digits of s
RECURSIVE DecValue(_, _)
DecValue(s, k) ==
  IF k = 0 THEN 0 ELSE DecValue(s, k - 1) * 10 + DigitValue(Ch(s, k))

\* int(s) of a string of decimal digits
PyInt10(s) == DecValue(s, Len(s))

\* export-blockchain-rpc.py line 78
MetadataLine(m) ==
  Dumps(JObj(<<KV("version", JStr(m.version)), KV("type", JStr(m.type)),
               KV("source", JStr(m.source)), KV("height", JNum(PyStr(m.height)))>>),
        ", ", ": ") \o "\n"

\* export-blockchain-rpc.py line 104
BlockLine(b) ==
  Dumps(JObj(<<KV("type", JStr(b.type)), KV("number", JNum(PyStr(b.number))),
               KV("hash", JStr(b.hash)), KV("parentHash", JStr(b.parentHash)),
               KV("timestamp", JNum(PyStr(b.timestamp))),
               KV("gasUsed", JNum(PyStr(b.gasUsed))),
               KV("gasLimit", JNum(PyStr(b.gasLimit))),
               KV("difficulty", JNum(PyStr(b.difficulty))),
               KV("miner", JStr(b.miner)),
               KV("transactions", JArr(b.transactions)),
               KV("uncles", JArr(b.uncles))>>),
        ", ", ": ") \o "\n"

(***************************************************************************)
(* read-migrated-state.py                                                  *)
(***************************************************************************)
REAL_TREASURY == "0x9011E888251AB053B7bD1cdB598Db4f9DEd94714"

JNull == JLit("null")

\* d.get(k, default)
Get(kv, k, default) == IF HasKey(kv, k) THEN GetKey(kv, k) ELSE default

\* a JSON number whose value is 0: every digit of its mantissa is 0
NumIsZero(s) ==
  \A i \in 1..(FirstIn(s, 1, {"e", "E"}) - 1) : Ch(s, i) \in {"0", "-", "."}

\* the truth value Python gives a decoded JSON value
Truthy(v) ==
  IF v.t = "str" THEN v.s # ""
  ELSE IF v.t = "num" THEN ~NumIsZero(v.s)
  ELSE IF v.t = "lit" THEN v.s = "true"
  ELSE IF v.t = "obj" THEN Len(v.kv) > 0
  ELSE Len(v.items) > 0

\* v != 0
NotZero(v) ==
  IF v.t = "num" THEN ~NumIsZero(v.s)
  ELSE IF v.t = "lit" THEN v.s # "false"
  ELSE TRUE

\* one printed line: what it reports, with its number and its value
Out(kind, n, info) == [kind |-> kind, n |-> n, info |-> info]

\* lines 34-36: the balance of the k-th account
BalanceOf(alloc, k) == PyInt10(Get(alloc.kv[k].v.kv, "balance", JStr("0")).s)

\* lines 33-36: total_balance after the first k accounts
RECURSIVE TotalBalance(_, _)
TotalBalance(alloc, k) ==
  IF k = 0 THEN 0 ELSE TotalBalance(alloc, k - 1) + BalanceOf(alloc, k)

\* lines 39-41: the accounts printed among the first k
RECURSIVE SignificantBalances(_, _)
SignificantBalances(alloc, k) ==
  IF k = 0 THEN <<>>
  ELSE SignificantBalances(alloc, k - 1)
         \o (IF BalanceOf(alloc, k) > 0
             THEN <<Out("account", BalanceOf(alloc, k), JStr(alloc.kv[k].k))>>
             ELSE <<>>)

\* line 67
SampleBlocks == {1, 100, 1000, 10000, 100000, 850000, 850870}

(***************************************************************************)
(* State.                                                                  *)
(***************************************************************************)
VARIABLES
  data,      \* the document fix_coinbase_in_json works on
  input,     \* the document before the first call
  before,    \* the document before the last call
  first,     \* the document after the first call
  passes,    \* calls of fix_coinbase_in_json made
  events,    \* what the last call printed
  raised,    \* the last call ended with an exception
  files,     \* genesis files on disk, by position in files_to_fix
  backups,   \* their .backup siblings
  originals, \* the genesis files before the first run of main
  atCall,    \* the text of the file fix_genesis_file was last called on, at the call
  pc,        \* position in main / fix_genesis_file
  idx,       \* position in files_to_fix
  fData,     \* fix_genesis_file's data
  fLog,      \* what main and fix_genesis_file printed
  runs,      \* runs of main started
  ePc,       \* position in export_blockchain
  current_height,
  block_num,
  outFile,   \* OUTPUT_FILE: its lines, once it was opened
  priorFile, \* OUTPUT_FILE before export_blockchain ran
  eLog,      \* what export_blockchain and make_rpc_call printed
  absent,    \* the block numbers the node gave no block for
  aPc,       \* position in analyze_export
  genesisText, \* the file at GENESIS_PATH
  alloc,
  stream,    \* the lines of the file at EXPORT_PATH
  line_num,  \* lines read
  block_count,
  state_count,
  unique_keys,
  aOut       \* what analyze_export printed

normVars == <<data, input, before, first, passes, events, raised>>
fixVars == <<files, backups, originals, atCall, pc, idx, fData, fLog, runs>>
exportVars == <<ePc, current_height, block_num, outFile, priorFile, eLog, absent>>
analyzeVars ==
  <<aPc, genesisText, alloc, stream, line_num, block_count, state_count, unique_keys, aOut>>
vars == <<normVars, fixVars, exportVars, analyzeVars>>

MaxPasses == 2
MaxFiles == 2
MaxRuns == 2
MaxHeight == 11
MaxGaps == 2
MaxLines == 3

IdleNorm ==
  /\ input = JLit("null") /\ data = input /\ before = input /\ first = input
  /\ passes = 0 /\ events = <<>> /\ raised = FALSE

IdleFix ==
  /\ files = <<>> /\ backups = <<>> /\ originals = <<>> /\ atCall = ""
  /\ pc = "idle" /\ idx = 0 /\ fData = JLit("null") /\ fLog = <<>> /\ runs = 0

IdleExport ==
  /\ ePc = "idle" /\ current_height = 0 /\ block_num = 0 /\ outFile = NoExport
  /\ priorFile = NoExport /\ eLog = <<>> /\ absent = {}

IdleAnalyze ==
  /\ aPc = "idle" /\ genesisText = "" /\ alloc = JObj(<<>>) /\ stream = <<>>
  /\ line_num = 0 /\ block_count = 0 /\ state_count = 0 /\ unique_keys = {}
  /\ aOut = <<>>

(***************************************************************************)
(* Repeated calls of fix_coinbase_in_json on one document.                 *)
(***************************************************************************)
InitNorm ==
  /\ input \in Docs
  /\ data = input /\ before = input /\ first = input
  /\ passes = 0 /\ events = <<>> /\ raised = FALSE
  /\ IdleFix /\ IdleExport /\ IdleAnalyze

\* one call fix_coinbase_in_json(data)
Normalize ==
  /\ passes < MaxPasses
  /\ ~raised
  /\ \E r \in {fix_coinbase_in_json(data)} :
        /\ data' = r.v
        /\ events' = r.ev
        /\ raised' = r.err
        /\ first' = IF passes = 0 THEN r.v ELSE first
  /\ before' = data
  /\ passes' = passes + 1
  /\ input' = input
  /\ UNCHANGED <<fixVars, exportVars, analyzeVars>>

NextNorm == Normalize
SpecNorm == InitNorm /\ [][NextNorm]_vars

(***************************************************************************)
(* main and fix_genesis_file.                                              *)
(***************************************************************************)
Msg(m, i, run) == [msg |-> m, file |-> i, run |-> run]

InitFix ==
  /\ IdleNorm /\ IdleExport /\ IdleAnalyze
  /\ files \in [1..MaxFiles -> {NoFile} \cup {File(t) : t \in FileTexts}]
  /\ backups = [i \in 1..MaxFiles |-> NoFile]
  /\ originals = files
  /\ atCall = ""
  /\ pc = "main" /\ idx = 1 /\ fData = JLit("null") /\ fLog = <<>> /\ runs = 1

\* a handler for the parse error alone
CaughtDecodeErrorOnly(exc) == exc = "JSONDecodeError"

\* line 66: except Exception
Caught(exc) == exc \in {"JSONDecodeError", "AttributeError"}

\* lines 66-67 when the handler catches, the exception leaving main otherwise
Raise(exc) ==
  IF Caught(exc)
  THEN /\ fLog' = Append(fLog, Msg("Error processing", idx, runs))
       /\ pc' = "main" /\ idx' = idx + 1
  ELSE /\ fLog' = fLog
       /\ pc' = "crashed" /\ idx' = idx

\* lines 84-89: one turn of main's loop, up to the call of fix_genesis_file (line 44)
MainStep ==
  /\ pc = "main" /\ idx <= MaxFiles
  /\ IF files[idx].exists
     THEN /\ fLog' = Append(fLog, Msg("Processing", idx, runs))
          /\ atCall' = files[idx].text
          /\ pc' = "read" /\ idx' = idx
     ELSE /\ fLog' = Append(fLog, Msg("File not found", idx, runs))
          /\ pc' = "main" /\ idx' = idx + 1 /\ atCall' = atCall
  /\ UNCHANGED <<files, backups, originals, fData, runs>>
  /\ UNCHANGED <<normVars, exportVars, analyzeVars>>

\* lines 91-92
MainEnd ==
  /\ pc = "main" /\ idx > MaxFiles
  /\ fLog' = Append(fLog, Msg("Genesis files fixed!", 0, runs))
  /\ pc' = "end"
  /\ UNCHANGED <<files, backups, originals, atCall, idx, fData, runs>>
  /\ UNCHANGED <<normVars, exportVars, analyzeVars>>

\* the script is run again
MainAgain ==
  /\ pc = "end" /\ runs < MaxRuns
  /\ runs' = runs + 1 /\ pc' = "main" /\ idx' = 1
  /\ UNCHANGED <<files, backups, originals, atCall, fData, fLog>>
  /\ UNCHANGED <<normVars, exportVars, analyzeVars>>

\* lines 47-48: json.load
FixRead ==
  /\ pc = "read"
  /\ \E r \in {JsonLoads(files[idx].text)} :
     IF r.ok
     THEN /\ fData' = r.v /\ pc' = "backup" /\ UNCHANGED <<idx, fLog>>
     ELSE /\ fData' = fData /\ Raise("JSONDecodeError")
  /\ UNCHANGED <<files, backups, originals, atCall, runs>>
  /\ UNCHANGED <<normVars, exportVars, analyzeVars>>

\* the backup written on every run
BackupAlways(b) == TRUE

\* line 52: if not os.path.exists(backup_path)
BackupNeeded(b) == ~b.exists

\* lines 51-55
FixBackup ==
  /\ pc = "backup"
  /\ IF BackupNeeded(backups[idx])
     THEN /\ backups' = [backups EXCEPT ![idx] = File(DumpsIndent(fData, 0))]
          /\ fLog' = Append(fLog, Msg("Created backup", idx, runs))
     ELSE UNCHANGED <<backups, fLog>>
  /\ pc' = "fix"
  /\ UNCHANGED <<files, originals, atCall, idx, fData, runs>>
  /\ UNCHANGED <<normVars, exportVars, analyzeVars>>

\* line 58
FixNormalize ==
  /\ pc = "fix"
  /\ \E r \in {fix_coinbase_in_json(fData)} :
     IF r.err
     THEN /\ fData' = r.v /\ Raise("AttributeError")
     ELSE /\ fData' = r.v /\ pc' = "write" /\ UNCHANGED <<idx, fLog>>
  /\ UNCHANGED <<files, backups, originals, atCall, runs>>
  /\ UNCHANGED <<normVars, exportVars, analyzeVars>>

\* lines 61-64
FixWrite ==
  /\ pc = "write"
  /\ files' = [files EXCEPT ![idx] = File(DumpsIndent(fData, 0))]
  /\ fLog' = Append(fLog, Msg("Saved fixed file", idx, runs))
  /\ pc' = "main" /\ idx' = idx + 1
  /\ UNCHANGED <<backups, originals, atCall, fData, runs>>
  /\ UNCHANGED <<normVars, exportVars, analyzeVars>>

NextFix == MainStep \/ MainEnd \/ MainAgain \/ FixRead \/ FixBackup \/ FixNormalize \/ FixWrite
SpecFix == InitFix /\ [][NextFix]_vars

(***************************************************************************)
(* export_blockchain.                                                      *)
(***************************************************************************)
InitExport ==
  /\ IdleNorm /\ IdleFix /\ IdleAnalyze
  /\ ePc = "start" /\ current_height = 0 /\ block_num = 0
  /\ outFile \in {NoExport, Export(<<Metadata(7), BlockEntry(NodeBlock(0))>>)}
  /\ priorFile = outFile
  /\ eLog = <<>> /\ absent = {}

HeightReplies ==
  {Reply("result", PyHex(h)) : h \in 0..MaxHeight} \cup {Reply(k, "") : k \in Absent}

\* eth_getBlockByNumber(block_hex, True): the node's block of that number,
\* or no block
BlockReplies(block_hex) ==
  {Reply("result", NodeBlock(PyInt16(block_hex)))} \cup {Reply(k, "") : k \in Absent}

\* lines 61-62
ExportHeight ==
  /\ ePc = "start"
  /\ \E reply \in HeightReplies :
       \E r \in {make_rpc_call(reply)} :
         /\ current_height' = get_current_height(r)
         /\ eLog' = eLog \o r.diag
                      \o <<Diag("Current blockchain height", get_current_height(r))>>
  /\ ePc' = "check"
  /\ UNCHANGED <<block_num, outFile, priorFile, absent>>
  /\ UNCHANGED <<normVars, fixVars, analyzeVars>>

\* lines 64-82: the early return, or the file opened and the metadata written
ExportOpen ==
  /\ ePc = "check"
  /\ IF NothingToExport(current_height)
     THEN /\ eLog' = Append(eLog, Diag("WARNING: Blockchain is at height 0", 0))
          /\ ePc' = "done"
          /\ outFile' = outFile
     ELSE /\ outFile' = Export(<<Metadata(current_height)>>)
          /\ eLog' = Append(eLog, Diag("Exporting blocks", current_height))
          /\ ePc' = "loop"
  /\ block_num' = 0
  /\ UNCHANGED <<current_height, priorFile, absent>>
  /\ UNCHANGED <<normVars, fixVars, analyzeVars>>

\* lines 85-86
Progress(n) == IF n % 1000 = 0 THEN <<Diag("Processing block", n)>> ELSE <<>>

\* lines 84-107: one turn of the loop
ExportBlock ==
  /\ ePc = "loop" /\ block_num < WalkEnd(current_height)
  /\ \E reply \in BlockReplies(PyHex(block_num)) :
       \E block \in {make_rpc_call(reply)} :
         IF block.some
         THEN /\ outFile' = Export(Append(outFile.lines, BlockEntry(block.val)))
              /\ eLog' = eLog \o Progress(block_num)
              /\ absent' = absent
              /\ block_num' = block_num + 1
         ELSE /\ Cardinality(absent) < MaxGaps
              /\ outFile' = outFile
              /\ eLog' = eLog \o Progress(block_num) \o block.diag
                           \o <<Diag("Failed to get block", block_num)>>
              /\ absent' = absent \cup {block_num}
              /\ block_num' = AfterGap(block_num, current_height)
  /\ UNCHANGED <<ePc, current_height, priorFile>>
  /\ UNCHANGED <<normVars, fixVars, analyzeVars>>

\* line 109, the file closed
ExportClose ==
  /\ ePc = "loop" /\ block_num >= WalkEnd(current_height)
  /\ eLog' = Append(eLog, Diag("Export complete", 0))
  /\ ePc' = "done"
  /\ UNCHANGED <<current_height, block_num, outFile, priorFile, absent>>
  /\ UNCHANGED <<normVars, fixVars, analyzeVars>>

NextExport == ExportHeight \/ ExportOpen \/ ExportBlock \/ ExportClose
SpecExport == InitExport /\ [][NextExport]_vars

(***************************************************************************)
(* analyze_export.                                                         *)
(***************************************************************************)
DeclaredHeight == 2

MetaLines ==
  { "{\"type\": \"metadata\", \"height\": " \o PyStr(DeclaredHeight) \o "}\n",
    MetadataLine(Metadata(DeclaredHeight)) }

BodyLines ==
  { "{\"type\": \"block\", \"key_id\": \"k0\", \"rlp_length\": 512}\n",
    "{\"type\": \"block\", \"key_id\": \"k1\", \"rlp_length\": 498}\n",
    BlockLine(BlockEntry(NodeBlock(2))),
    "{\"bucket\": 3, \"key_id\": \"s0\"}\n",
    "{\"bucket\": 0, \"key_id\": \"s1\"}\n",
    "{\"type\": \"block\", \"key_id\": \"k2\", \"rlp_le\n",
    "[1]\n" }

RECURSIVE Streams(_)
Streams(n) ==
  IF n = 0 THEN {<<>>}
  ELSE Streams(n - 1) \cup {Append(t, l) : t \in Streams(n - 1), l \in BodyLines}

GenesisTexts ==
  { DumpsIndent(GenesisDocWith(<<>>, <<>>, <<>>, a), 0) :
      a \in {JObj(<<KV(Cb40, Balance("1000")), KV(Cb64Padded, Balance("0"))>>),
             JObj(<<KV(REAL_TREASURY, Balance("2000"))>>)} }

InitAnalyze ==
  /\ IdleNorm /\ IdleFix /\ IdleExport
  /\ aPc = "genesis"
  /\ genesisText \in GenesisTexts
  /\ alloc = JObj(<<>>)
  /\ \E m \in MetaLines : \E t \in Streams(MaxLines) : stream = <<m>> \o t
  /\ line_num = 0 /\ block_count = 0 /\ state_count = 0 /\ unique_keys = {}
  /\ aOut = <<>>

\* lines 22-43
GenesisReport(genesis, al) ==
  <<Out("Chain ID", 0, GetKey(GetKey(genesis.kv, "config").kv, "chainId")),
    Out("Gas Limit", 0, GetKey(genesis.kv, "gasLimit")),
    Out("Genesis Allocations", Len(al.kv), JNull)>>
  \o SignificantBalances(al, Len(al.kv))
  \o <<Out("Total Genesis Balance", TotalBalance(al, Len(al.kv)), JNull)>>

AnalyzeGenesis ==
  /\ aPc = "genesis"
  /\ \E genesis \in {JsonLoads(genesisText).v} :
       \E al \in {Get(genesis.kv, "alloc", JObj(<<>>))} :
         /\ alloc' = al
         /\ aOut' = GenesisReport(genesis, al)
  /\ aPc' = "lines"
  /\ UNCHANGED <<genesisText, stream, line_num, block_count, state_count, unique_keys>>
  /\ UNCHANGED <<normVars, fixVars, exportVars>>

\* lines 57-74, for a line that decoded to entry
AnalyzeEntry(entry) ==
  IF entry.t # "obj"
  THEN \* entry.get raises AttributeError, which nothing catches
       /\ aPc' = "crashed"
       /\ UNCHANGED <<block_count, state_count, unique_keys, aOut>>
  ELSE IF Get(entry.kv, "type", JNull) = JStr("metadata")
  THEN /\ aOut' = Append(aOut, Out("Metadata", 0, entry))
       /\ UNCHANGED <<aPc, block_count, state_count, unique_keys>>
  ELSE IF Get(entry.kv, "type", JNull) = JStr("block")
  THEN \E key_id \in {Get(entry.kv, "key_id", JStr(""))} :
         IF key_id.t \in {"obj", "arr"}
         THEN \* set.add raises TypeError for a list or a dict
              /\ aPc' = "crashed"
              /\ block_count' = block_count + 1
              /\ UNCHANGED <<state_count, unique_keys, aOut>>
         ELSE /\ block_count' = block_count + 1
              /\ unique_keys' = unique_keys \cup {key_id}
              /\ aOut' = IF block_count + 1 \in SampleBlocks
                         THEN Append(aOut, Out("Block entry", block_count + 1, key_id))
                         ELSE aOut
              /\ UNCHANGED <<aPc, state_count>>
  ELSE IF Truthy(Get(entry.kv, "bucket", JNull)) /\ NotZero(Get(entry.kv, "bucket", JNull))
  THEN /\ state_count' = state_count + 1
       /\ aOut' = IF state_count + 1 <= 3
                  THEN Append(aOut, Out("State entry", state_count + 1,
                                        Get(entry.kv, "bucket", JNull)))
                  ELSE aOut
       /\ UNCHANGED <<aPc, block_count, unique_keys>>
  ELSE UNCHANGED <<aPc, block_count, state_count, unique_keys, aOut>>

\* lines 53-80: one line of the file
AnalyzeLine ==
  /\ aPc = "lines" /\ line_num < Len(stream)
  /\ line_num' = line_num + 1
  /\ \E r \in {JsonLoads(stream[line_num + 1])} :
       IF r.ok
       THEN AnalyzeEntry(r.v)
       ELSE \* except json.JSONDecodeError: continue
            UNCHANGED <<aPc, block_count, state_count, unique_keys, aOut>>
  /\ UNCHANGED <<genesisText, alloc, stream>>
  /\ UNCHANGED <<normVars, fixVars, exportVars>>

\* lines 82-93
AnalyzeSummary ==
  /\ aPc = "lines" /\ line_num = Len(stream)
  /\ aOut' = aOut \o
       <<Out("Total block entries", block_count, JNull),
         Out("Total state entries", state_count, JNull),
         Out("Unique block keys", Cardinality(unique_keys), JNull),
         Out("Treasury account", 0, JStr(REAL_TREASURY)),
         Out("Treasury balance", 0,
             Get(Get(alloc.kv, REAL_TREASURY, JObj(<<>>)).kv, "balance", JStr("0"))),
         Out("Exported blocks", block_count, JNull)>>
  /\ aPc' = "done"
  /\ UNCHANGED <<genesisText, alloc, stream, line_num, block_count, state_count, unique_keys>>
  /\ UNCHANGED <<normVars, fixVars, exportVars>>

NextAnalyze == AnalyzeGenesis \/ AnalyzeLine \/ AnalyzeSummary
SpecAnalyze == InitAnalyze /\ [][NextAnalyze]_vars

(***************************************************************************)
(* Claims about fix_coinbase_in_json (SpecNorm).                           *)
(***************************************************************************)
\* C1: a second call of fix_coinbase_in_json leaves the document as the first
\* call left it, the re-serialized embedded string included.
C1_Idempotent == (passes >= 2 /\ ~raised) => data = first

\* two calls were made on a document whose embedded genesis string the first
\* call rewrote
C1_Witness ==
  /\ passes = 2 /\ ~raised
  /\ HasKey(input.kv, "cChainGenesis")
  /\ GetKey(first.kv, "cChainGenesis") # GetKey(input.kv, "cChainGenesis")
  /\ \E j \in 1..Len(input.kv) : input.kv[j].k = "coinbase" /\ input.kv[j].v = JStr(Cb64)

\* The coinbase values a call meets, in the order it meets them, up to the
\* first one that is not a string (stop: there is such a one).
NoneMet == [vals |-> <<>>, stop |-> FALSE]
RECURSIVE Met(_)
RECURSIVE MetMembers(_, _)
RECURSIVE MetItems(_, _)
MetMembers(kv, i) ==
  IF i > Len(kv) THEN NoneMet
  ELSE LET child == IF kv[i].v.t \in {"obj", "arr"} THEN Met(kv[i].v)
                    ELSE IF kv[i].k = "cChainGenesis" /\ kv[i].v.t = "str"
                            /\ JsonLoads(kv[i].v.s).ok
                      THEN Met(JsonLoads(kv[i].v.s).v)
                    ELSE NoneMet
           rest == MetMembers(kv, i + 1)
       IN IF child.stop THEN child
          ELSE [vals |-> child.vals \o rest.vals, stop |-> rest.stop]

MetItems(items, i) ==
  IF i > Len(items) THEN NoneMet
  ELSE LET child == Met(items[i])
           rest == MetItems(items, i + 1)
       IN IF child.stop THEN child
          ELSE [vals |-> child.vals \o rest.vals, stop |-> rest.stop]

Met(v) ==
  IF v.t = "obj" THEN
    IF HasKey(v.kv, "coinbase") /\ GetKey(v.kv, "coinbase").t # "str"
    THEN [vals |-> <<>>, stop |-> TRUE]
    ELSE LET own == IF HasKey(v.kv, "coinbase") THEN <<GetKey(v.kv, "coinbase").s>> ELSE <<>>
             rest == MetMembers(v.kv, 1)
         IN [vals |-> own \o rest.vals, stop |-> rest.stop]
  ELSE IF v.t = "arr" THEN MetItems(v.items, 1)
  ELSE NoneMet

PayloadLen(s) == Len(s) - 2

ExpectedValue(s) ==
  IF StartsWith0x(s) /\ PayloadLen(s) = 64 THEN SubSeq(s, 1, 42) ELSE s

ExpectedEvents(s) ==
  IF StartsWith0x(s) /\ PayloadLen(s) = 64 THEN <<EvFixed(s, SubSeq(s, 1, 42))>>
  ELSE IF StartsWith0x(s) /\ PayloadLen(s) # 40 THEN <<EvWarning(s, PayloadLen(s))>>
  ELSE <<>>

RECURSIVE ExpectedLog(_, _)
ExpectedLog(vals, i) ==
  IF i > Len(vals) THEN <<>> ELSE ExpectedEvents(vals[i]) \o ExpectedLog(vals, i + 1)

AllocKeys(doc) ==
  IF doc.t = "obj" /\ HasKey(doc.kv, "alloc") /\ GetKey(doc.kv, "alloc").t = "obj"
  THEN {GetKey(doc.kv, "alloc").kv[j].k : j \in 1..Len(GetKey(doc.kv, "alloc").kv)}
  ELSE {}

\* C9: after a call of fix_coinbase_in_json every address key of the alloc
\* mapping has a payload of exactly 40 hex characters.
C9_AllocKeys40 ==
  (passes >= 1 /\ ~raised) => \A k \in AllocKeys(data) : StartsWith0x(k) /\ PayloadLen(k) = 40

(***************************************************************************)
(* Claims about fix_genesis_file and main (SpecFix).                       *)
(***************************************************************************)
\* C8: a backup is written only where none exists, it then holds the document
\* its genesis file held before the first run of main, and the genesis file
\* is rewritten only when its backup exists.
C8_BackupOnce ==
  [][ /\ \A i \in 1..MaxFiles :
           backups'[i] # backups[i] =>
             /\ ~backups[i].exists
             /\ files[i] = originals[i]
             /\ JsonLoads(backups'[i].text).ok
             /\ JsonLoads(backups'[i].text) = JsonLoads(originals[i].text)
      /\ \A i \in 1..MaxFiles : files'[i] # files[i] => backups[i].exists
      /\ pc = "write" => backups[idx].exists ]_vars


\* main ran twice over a file that the first run rewrote, and its backup
\* still holds another document than the file
C8_Witness ==
  /\ pc = "end" /\ runs = 2
  /\ backups[1].exists /\ files[1] # originals[1]
  /\ \E j \in 1..Len(fLog) : fLog[j] = Msg("Saved fixed file", 1, 2)
  /\ backups[1].text # files[1].text

\* C10: when fix_genesis_file fails on a file, it prints the error and the
\* file holds what it held at the call; main goes on with the next file and
\* ends only after it went through every file of its list.
C10_FailureIsolated ==
  /\ pc # "crashed"
  /\ (fLog # <<>> /\ fLog[Len(fLog)].msg = "Error processing") =>
       /\ files[fLog[Len(fLog)].file].text = atCall
       /\ pc = "main" /\ idx = fLog[Len(fLog)].file + 1
  /\ pc = "end" =>
       \A i \in 1..MaxFiles :
         \E j \in 1..Len(fLog) :
           /\ fLog[j].file = i /\ fLog[j].run = runs
           /\ fLog[j].msg \in {"Processing", "File not found"}

\* the fix of file 1 failed in normalization, after its backup was written,
\* and main then fixed file 2
C10_Witness ==
  /\ pc = "end" /\ runs = 1
  /\ files[1] = originals[1]
  /\ \E j \in 1..Len(fLog) : fLog[j] = Msg("Created backup", 1, 1)
  /\ \E j \in 1..Len(fLog) : fLog[j] = Msg("Error processing", 1, 1)
  /\ \E j \in 1..Len(fLog) : fLog[j] = Msg("Saved fixed file", 2, 1)

(***************************************************************************)
(* Claims about export_blockchain (SpecExport).                            *)
(***************************************************************************)
BlockLines == SubSeq(outFile.lines, 2, Len(outFile.lines))

C4_EmptyChainNoFile ==
  (ePc \in {"check", "loop", "done"} /\ current_height = 0) =>
    /\ outFile = priorFile
    /\ ePc # "loop"
    /\ ePc = "done" => eLog[Len(eLog)] = Diag("WARNING: Blockchain is at height 0", 0)

\* the node answered 0x0, a file of an earlier export was on disk, and the
\* export ended without touching it
C4_Witness ==
  /\ ePc = "done" /\ current_height = 0
  /\ priorFile.exists /\ outFile = priorFile
  /\ Len(eLog) = 2

\* C5: when the walk has ended, the numbers written are the numbers of the
\* walk range for which the node gave a block, each absent number has its
\* "Failed to get block" line, and the walk went through the whole range.
C5_GapNeverHalts ==
  (ePc = "done" /\ current_height > 0) =>
    /\ block_num = Min(current_height, 9) + 1
    /\ absent \subseteq 0..Min(current_height, 9)
    /\ {BlockLines[j].number : j \in 1..Len(BlockLines)} = (0..Min(current_height, 9)) \ absent
    /\ Len(BlockLines) = Min(current_height, 9) + 1 - Cardinality(absent)
    /\ \A n \in absent : \E j \in 1..Len(eLog) : eLog[j] = Diag("Failed to get block", n)

\* blocks 0 and 2 of a chain of height 3 were absent, for different reasons,
\* and blocks 1 and 3 were written
C5_Witness ==
  /\ ePc = "done" /\ current_height = 3 /\ absent = {0, 2}
  /\ Len(BlockLines) = 2 /\ BlockLines[1].number = 1 /\ BlockLines[2].number = 3
  /\ \E j \in 1..Len(eLog) : eLog[j] = Diag("RPC Error", 0)
  /\ \E j \in 1..Len(eLog) : eLog[j] = Diag("Connection error", 0)

(***************************************************************************)
(* Claims about analyze_export (SpecAnalyze).                              *)
(***************************************************************************)
EntryAt(j) == JsonLoads(stream[j])
IsRecord(j) == EntryAt(j).ok /\ EntryAt(j).v.t = "obj"
IsBlockLine(j) == IsRecord(j) /\ Get(EntryAt(j).v.kv, "type", JNull) = JStr("block")
IsStateLine(j) ==
  /\ IsRecord(j)
  /\ Get(EntryAt(j).v.kv, "type", JNull) \notin {JStr("block"), JStr("metadata")}
  /\ Truthy(Get(EntryAt(j).v.kv, "bucket", JNull))

\* the height the leading metadata record declares
Declared == PyInt10(GetKey(EntryAt(1).v.kv, "height").s)

\* the distinct block records of the stream: by key_id, or by number in the
\* lines export_blockchain writes
BlockIds ==
  {Get(EntryAt(j).v.kv, "key_id", Get(EntryAt(j).v.kv, "number", JNull)) :
     j \in {i \in 2..Len(stream) : IsBlockLine(i)}}

MalformedLines == {j \in 1..Len(stream) : ~IsRecord(j)}

\* C6: when the analysis of a stream with fewer than H+1 distinct block
\* records has ended, its report holds a finding that the block count does
\* not match the declared height H.
C6_TruncationFlagged ==
  (aPc = "done" /\ Cardinality(BlockIds) < Declared + 1) =>
    \E j \in 1..Len(aOut) : aOut[j].kind = "Discrepancy"

\* C7: a line that is not a JSON record never ends the analysis; at the
\* end the counts are those of the stream without such lines and the number
\* of such lines is reported.
C7_MalformedCounted ==
  /\ aPc # "crashed"
  /\ aPc = "done" =>
       /\ block_count = Cardinality({j \in 1..Len(stream) : IsBlockLine(j)})
       /\ state_count = Cardinality({j \in 1..Len(stream) : IsStateLine(j)})
       /\ MalformedLines # {} =>
            \E j \in 1..Len(aOut) :
              /\ aOut[j].kind = "Malformed lines"
              /\ aOut[j].n = Cardinality(MalformedLines)

====
